---- MODULE Spec2Model ----
(* User synchronisation report: the pipeline of src/six.py (main and the   *)
(* functions it calls).  Identifiers are Python strings, modelled as       *)
(* sequences of one-character strings; comparison is by code point.        *)
EXTENDS Integers, Sequences, FiniteSets, TLC

(***************************************************************************)
(* Bounds of the model                                                     *)
(***************************************************************************)
\* largest number of pages the directory service chains by continuation link
MaxPages == 2
\* largest number of member records on one page
MaxPageRecs == 1
\* largest number of rows in pg_catalog.pg_user
MaxCatalog == 3
\* largest length of the account list handed to the renderers on their own
MaxRenderList == 2

(***************************************************************************)
(* Python strings                                                          *)
(***************************************************************************)
\* the characters used, in ascending code point order
AsciiOrder == <<"0", "1", "2", "3", "4", "5", "6", "7", "8", "9", "A", "B", "C", "D", "E", "F", "G", "H", "I", "J", "K", "L", "M", "N", "O", "P", "Q", "R", "S", "T", "U", "V", "W", "X", "Y", "Z", "_", "a", "b", "c", "d", "e", "f", "g", "h", "i", "j", "k", "l", "m", "n", "o", "p", "q", "r", "s", "t", "u", "v", "w", "x", "y", "z">>

Ord(c) == CHOOSE i \in 1..Len(AsciiOrder) : AsciiOrder[i] = c

\* str.lower() on one character: 'A'..'Z' map to 'a'..'z', the rest is kept
LowerChar(c) == IF Ord(c) >= Ord("A") /\ Ord(c) <= Ord("Z") THEN AsciiOrder[Ord(c) + (Ord("a") - Ord("A"))] ELSE c

\* str.lower()
Lower(s) == [i \in 1..Len(s) |-> LowerChar(s[i])]

\* s.startswith(p)
StartsWith(s, p) == Len(s) >= Len(p) /\ SubSeq(s, 1, Len(p)) = p

\* the slice s[n:]
SliceFrom(s, n) == IF n >= Len(s) THEN <<>> ELSE SubSeq(s, n + 1, Len(s))

RECURSIVE StrLess(_, _)
\* a < b on Python strings: lexicographic by code point, a proper prefix is smaller
StrLess(a, b) == IF b = <<>> THEN FALSE ELSE IF a = <<>> THEN TRUE ELSE IF a[1] = b[1] THEN StrLess(Tail(a), Tail(b)) ELSE Ord(a[1]) < Ord(b[1])

RECURSIVE Insert(_, _)
\* insert x into the sorted list s, after the elements equal to it (stable)
Insert(x, s) == IF s = <<>> THEN <<x>> ELSE IF StrLess(x, s[1]) THEN <<x>> \o s ELSE <<s[1]>> \o Insert(x, Tail(s))

RECURSIVE SortedList(_)
\* sorted(list of strings)
SortedList(s) == IF s = <<>> THEN <<>> ELSE Insert(s[Len(s)], SortedList(SubSeq(s, 1, Len(s) - 1)))

RECURSIVE SetToSortedList(_)
\* the elements of a set of strings in ascending order
SetToSortedList(S) == IF S = {} THEN <<>> ELSE LET x == CHOOSE y \in S : \A z \in S : z = y \/ StrLess(y, z) IN <<x>> \o SetToSortedList(S \ {x})

\* the elements of a list
Elems(s) == {s[i] : i \in 1..Len(s)}

(***************************************************************************)
(* Names                                                                   *)
(***************************************************************************)
n_alice == <<"a", "l", "i", "c", "e">>
n_Alice == <<"A", "l", "i", "c", "e">>
n_bob == <<"b", "o", "b">>
n_carol == <<"c", "a", "r", "o", "l">>
n_eve == <<"e", "v", "e">>
n_Eve == <<"E", "V", "E">>
n_postgres == <<"p", "o", "s", "t", "g", "r", "e", "s">>
n_rdsadmin == <<"r", "d", "s", "a", "d", "m", "i", "n">>
n_test == <<"t", "e", "s", "t">>
n_test01bob == <<"t", "e", "s", "t", "0", "1", "b", "o", "b">>
n_test_postgres == <<"t", "e", "s", "t", "_", "_", "p", "o", "s", "t", "g", "r", "e", "s">>
n_testab == <<"t", "e", "s", "t", "a", "b">>

\* DEFAULT_USERS = {'postgres', 'rdsadmin'}
DEFAULT_USERS == {n_postgres, n_rdsadmin}

\* the account names that may exist in pg_catalog.pg_user
RawNames == {n_alice, n_Alice, n_bob, n_carol, n_postgres, n_rdsadmin, n_test01bob, n_test_postgres, n_testab}

\* the catalogs: sets of distinct account names
Catalogs == {c \in SUBSET RawNames : Cardinality(c) <= MaxCatalog}

\* the member records the directory service may return: with the attribute
\* onPremisesSamAccountName, without the key, or with the key and a null value
MemberRecords == {[has |-> TRUE, null |-> FALSE, val |-> n_Alice], [has |-> TRUE, null |-> FALSE, val |-> n_bob], [has |-> TRUE, null |-> FALSE, val |-> n_Eve], [has |-> FALSE, null |-> FALSE, val |-> <<>>], [has |-> TRUE, null |-> TRUE, val |-> <<>>]}

\* the 'value' arrays one response may carry
PageValues == UNION {[1..k -> MemberRecords] : k \in 0..MaxPageRecs}

(***************************************************************************)
(* Pure functions of the program                                           *)
(***************************************************************************)
\* required_env_vars
RequiredEnvVars == {"DB_HOST", "DB_PORT", "DB_NAME", "DB_USER", "DB_PASSWORD", "AZURE_TENANT_ID", "AZURE_CLIENT_ID", "AZURE_CLIENT_SECRET"}

\* a variable of the environment is absent, the empty string, or a non-empty string
EnvValues == {"absent", "empty", "set"}

\* MissingVars testing "os.getenv(var) is None": an empty value passes
MissingVarsNoneOnly(e) == {v \in RequiredEnvVars : e[v] = "absent"}

\* missing_vars = [var for var in required_env_vars if not os.getenv(var)]
MissingVars(e) == {v \in RequiredEnvVars : e[v] # "set"}

\* ValidMembers without .lower()
ValidMembersNoLower(ms) == {ms[i].val : i \in {j \in 1..Len(ms) : ms[j].has}}

\* valid_members = {member[attr].lower() for member in members if attr in member}
ValidMembers(ms) == {Lower(ms[i].val) : i \in {j \in 1..Len(ms) : ms[j].has}}

\* LowerRaises never raising: a null value is lower-cased like a string
LowerRaisesNever(ms) == FALSE

\* member[attr].lower() raises AttributeError when the value is null
LowerRaises(ms) == \E i \in 1..Len(ms) : ms[i].has /\ ms[i].null

\* the rows of "SELECT usename FROM pg_catalog.pg_user ORDER BY usename;"
FetchAll(catalog) == SetToSortedList(catalog)

\* user[0][6:] if user[0].startswith('test') else user[0]
StripPrefix(name) == IF StartsWith(name, n_test) THEN SliceFrom(name, 6) ELSE name

\* the test of the comprehension: user[0] not in DEFAULT_USERS
NotDefaultUser(name) == name \notin DEFAULT_USERS

\* users = [<strip> for user in cur.fetchall() if user[0] not in DEFAULT_USERS]
MapRows(fetchall) == LET kept == SelectSeq(fetchall, NotDefaultUser) IN [i \in 1..Len(kept) |-> StripPrefix(kept[i])]

\* TableRow with the two statuses exchanged
TableRowSwapped(user, azure) == [NTID |-> user, InAzure |-> IF user \in azure THEN "Yes" ELSE "No", InRDS |-> "Yes", Status |-> IF user \in azure THEN "Needs to be deleted" ELSE "Valid user"]

\* TableRow with the 'In Azure' flag always 'Yes'
TableRowInAzureYes(user, azure) == [NTID |-> user, InAzure |-> "Yes", InRDS |-> "Yes", Status |-> IF user \in azure THEN "Valid user" ELSE "Needs to be deleted"]

\* one row of table_data
TableRow(user, azure) == [NTID |-> user, InAzure |-> IF user \in azure THEN "Yes" ELSE "No", InRDS |-> "Yes", Status |-> IF user \in azure THEN "Valid user" ELSE "Needs to be deleted"]

\* TableData iterating over postgres_users as fetched, without sorted()
TableDataUnsorted(azure, pg) == [i \in 1..Len(pg) |-> [NTID |-> pg[i], InAzure |-> IF pg[i] \in azure THEN "Yes" ELSE "No", InRDS |-> "Yes", Status |-> IF pg[i] \in azure THEN "Valid user" ELSE "Needs to be deleted"]]

\* table_data = [[...] for user in sorted(postgres_users)]
TableData(azure, pg) == LET s == SortedList(pg) IN [i \in 1..Len(s) |-> TableRow(s[i], azure)]

\* ValidUsers without the membership test
ValidUsersAll(azure, pg) == pg

\* valid_users = [user for user in postgres_users if user in azure_users]
ValidUsers(azure, pg) == SelectSeq(pg, LAMBDA u : u \in azure)

\* UsersToDelete as a symmetric difference: the directory members without a database account are listed too
UsersToDeleteSymmetric(azure, pg) == SelectSeq(pg, LAMBDA u : u \notin azure) \o SetToSortedList(azure \ {pg[i] : i \in 1..Len(pg)})

\* users_to_delete = [user for user in postgres_users if user not in azure_users]
UsersToDelete(azure, pg) == SelectSeq(pg, LAMBDA u : u \notin azure)

\* SummaryInfo counting the distinct database accounts instead of the entries of the list
SummaryInfoDistinct(azure, pg, valid, del) == [total_rds |-> Cardinality({pg[i] : i \in 1..Len(pg)}), total_azure |-> Cardinality(azure), valid |-> Len(valid), to_delete |-> Len(del)]

\* summary_info, without the line of the generation time; a line is its label and its number
SummaryInfo(azure, pg, valid, del) == [total_rds |-> Len(pg), total_azure |-> Cardinality(azure), valid |-> Len(valid), to_delete |-> Len(del)]

\* the summary before it is computed
NoSummary == [total_rds |-> 0, total_azure |-> 0, valid |-> 0, to_delete |-> 0]

\* WriteReport listing users_to_delete in the order handed over, without sorted()
WriteReportUnsorted(td, si, del) == [made |-> TRUE, dashboard |-> [total_rds |-> si.total_rds, total_azure |-> si.total_azure, valid_users |-> si.valid, users_delete |-> si.to_delete], summary |-> si, table |-> td, deleteSection |-> del # <<>>, deleteList |-> del]

\* write_report: the dashboard numbers parsed back from the summary lines, the
\* summary lines, the comparison table, and the section of users to delete
WriteReport(td, si, del) == [made |-> TRUE, dashboard |-> [total_rds |-> si.total_rds, total_azure |-> si.total_azure, valid_users |-> si.valid, users_delete |-> si.to_delete], summary |-> si, table |-> td, deleteSection |-> del # <<>>, deleteList |-> IF del # <<>> THEN SortedList(del) ELSE <<>>]

\* no report
NoReport == [made |-> FALSE, dashboard |-> [total_rds |-> 0, total_azure |-> 0, valid_users |-> 0, users_delete |-> 0], summary |-> NoSummary, table |-> <<>>, deleteSection |-> FALSE, deleteList |-> <<>>]

(***************************************************************************)
(* The renderers of the other entry points: what each writes about the     *)
(* users to delete, with the table and the summary lines it is handed      *)
(***************************************************************************)
\* the part of a report about the users to delete: "if users_to_delete:" a
\* section with one line "for user in sorted(users_to_delete)", and in the
\* renderers that have an else branch a note that nobody is to be deleted
DeleteSection(del, has_else) == [deleteSection |-> del # <<>>, deleteList |-> IF del # <<>> THEN SortedList(del) ELSE <<>>, noDeleteNote |-> has_else /\ del = <<>>]

\* seven.py write_report (HTML, no else branch)
seven_write_report(td, si, del) == [made |-> TRUE, summary |-> si, table |-> td, delete |-> DeleteSection(del, FALSE)]

\* third.py write_report (HTML)
third_write_report(td, si, del) == [made |-> TRUE, summary |-> si, table |-> td, delete |-> DeleteSection(del, TRUE)]

\* first.py generate_html_report; the heading of the section states len(users_to_delete)
first_generate_html_report(td, si, del) == [made |-> TRUE, summary |-> si, table |-> td, deleteCount |-> Len(del), delete |-> DeleteSection(del, TRUE)]

\* first.py write_report (text)
first_write_report(td, si, del) == [made |-> TRUE, summary |-> si, table |-> td, delete |-> DeleteSection(del, TRUE)]

\* second.py generate_html_report; the heading of the section states len(users_to_delete)
second_generate_html_report(td, si, del) == [made |-> TRUE, summary |-> si, table |-> td, deleteCount |-> Len(del), delete |-> DeleteSection(del, TRUE)]

\* second.py write_report (text)
second_write_report(td, si, del) == [made |-> TRUE, summary |-> si, table |-> td, delete |-> DeleteSection(del, TRUE)]

\* the renderers of the repository
Renderers == {"six.write_report", "seven.write_report", "third.write_report", "first.generate_html_report", "first.write_report", "second.generate_html_report", "second.write_report"}

\* the part about the users to delete of the report of six.py write_report
SixDeletePart(report) == [deleteSection |-> report.deleteSection, deleteList |-> report.deleteList, noDeleteNote |-> FALSE]

\* the call of renderer r; of the report of six.py the same fields are kept
Render(r, td, si, del) == CASE r = "six.write_report" -> LET rep == WriteReport(td, si, del) IN [made |-> rep.made, summary |-> rep.summary, table |-> rep.table, delete |-> SixDeletePart(rep)]
                            [] r = "seven.write_report" -> seven_write_report(td, si, del)
                            [] r = "third.write_report" -> third_write_report(td, si, del)
                            [] r = "first.generate_html_report" -> first_generate_html_report(td, si, del)
                            [] r = "first.write_report" -> first_write_report(td, si, del)
                            [] r = "second.generate_html_report" -> second_generate_html_report(td, si, del)
                            [] r = "second.write_report" -> second_write_report(td, si, del)

\* send_email_report has not been called
NoEmail == [outcome |-> "none", subject |-> "none"]

\* no renderer has been called
NothingRendered == [r \in Renderers |-> [made |-> FALSE]]

(***************************************************************************)
(* State                                                                   *)
(***************************************************************************)
VARIABLES env, rendered, email, pc, azure_token, group_id, members, next_link, served, azure_users, fetched, postgres_users, table_data, valid_users, users_to_delete, summary_info, report_content, output_stream, report_file, log_errors, stdout, tokenRequests, groupCalls, memberCalls, dbConnects, tokenOutcome, groupOutcome, httpFailed, dbOutcome, fileOutcome

vars == <<env, rendered, email, pc, azure_token, group_id, members, next_link, served, azure_users, fetched, postgres_users, table_data, valid_users, users_to_delete, summary_info, report_content, output_stream, report_file, log_errors, stdout, tokenRequests, groupCalls, memberCalls, dbConnects, tokenOutcome, groupOutcome, httpFailed, dbOutcome, fileOutcome>>

\* the variables of the directory side
dirVars == <<azure_token, group_id, members, next_link, served, azure_users, tokenRequests, groupCalls, memberCalls, tokenOutcome, groupOutcome, httpFailed>>

\* the variables of the database side
dbVars == <<fetched, postgres_users, dbConnects, dbOutcome>>

\* the variables of the comparison and of the report
reportVars == <<table_data, valid_users, users_to_delete, summary_info, report_content, output_stream, report_file, fileOutcome>>

\* the report file before the run: whatever an earlier run left
OldFile == [state |-> "old", content |-> NoReport]

Init == /\ env \in [RequiredEnvVars -> EnvValues]
        /\ rendered = NothingRendered
        /\ email = NoEmail
        /\ pc = "start"
        /\ azure_token = FALSE
        /\ group_id = FALSE
        /\ members = <<>>
        /\ next_link = 0
        /\ served = <<>>
        /\ azure_users = {}
        /\ fetched = <<>>
        /\ postgres_users = <<>>
        /\ table_data = <<>>
        /\ valid_users = <<>>
        /\ users_to_delete = <<>>
        /\ summary_info = NoSummary
        /\ report_content = NoReport
        /\ output_stream = <<>>
        /\ report_file = OldFile
        /\ log_errors = <<>>
        /\ stdout = <<>>
        /\ tokenRequests = 0
        /\ groupCalls = 0
        /\ memberCalls = 0
        /\ dbConnects = 0
        /\ tokenOutcome = "none"
        /\ groupOutcome = "none"
        /\ httpFailed = FALSE
        /\ dbOutcome = "none"
        /\ fileOutcome = "none"

(***************************************************************************)
(* main, one step per statement that calls out                             *)
(***************************************************************************)
\* logger.error(msg)
LogError(msg) == log_errors' = Append(log_errors, msg)

\* main, lines 373-382: the check of the required environment variables;
\* the ValueError is caught by main's "except ValueError"
CheckEnvironment == /\ pc = "start"
                    /\ IF MissingVars(env) # {} THEN LogError("Configuration error") /\ pc' = "final" ELSE pc' = "token" /\ UNCHANGED log_errors
                    /\ UNCHANGED <<env, rendered, email, dirVars, dbVars, reportVars, stdout>>

\* GetAzureToken without the check of 'access_token': the run goes on to the group lookup
GetAzureTokenNoCheck == /\ pc = "token"
                        /\ tokenRequests' = tokenRequests + 1
                        /\ \E has_token \in BOOLEAN :
                             /\ tokenOutcome' = IF has_token THEN "token" ELSE "no_token"
                             /\ azure_token' = has_token
                        /\ pc' = "group"
                        /\ UNCHANGED <<env, rendered, email, group_id, members, next_link, served, azure_users, groupCalls, memberCalls, groupOutcome, httpFailed, dbVars, reportVars, log_errors, stdout>>

\* get_azure_token: one token request; a response without access_token is
\* logged and raised as Exception, which main's generic handler logs again
GetAzureToken == /\ pc = "token"
                 /\ tokenRequests' = tokenRequests + 1
                 /\ \E has_token \in BOOLEAN :
                      /\ tokenOutcome' = IF has_token THEN "token" ELSE "no_token"
                      /\ azure_token' = has_token
                      /\ IF has_token THEN pc' = "group" /\ UNCHANGED log_errors ELSE pc' = "final" /\ log_errors' = log_errors \o <<"Failed to obtain access token", "An error occurred">>
                 /\ UNCHANGED <<env, rendered, email, group_id, members, next_link, served, azure_users, groupCalls, memberCalls, groupOutcome, httpFailed, dbVars, reportVars, stdout>>

\* GetGroupId without the "if not groups" check: an empty result is taken as a group
GetGroupIdNoCheck == /\ pc = "group"
                     /\ groupCalls' = groupCalls + 1
                     /\ \E resp \in {"http_error", "empty", "found"} :
                          /\ groupOutcome' = resp
                          /\ httpFailed' = (resp = "http_error")
                          /\ group_id' = (resp # "http_error")
                          /\ pc' = IF resp # "http_error" THEN "members_begin" ELSE "final"
                          /\ log_errors' = IF resp = "http_error" THEN Append(log_errors, "Network error occurred") ELSE log_errors
                     /\ UNCHANGED <<env, rendered, email, azure_token, members, next_link, served, azure_users, tokenRequests, memberCalls, tokenOutcome, dbVars, reportVars, stdout>>

\* get_group_id: one REST call; raise_for_status raises HTTPError (a
\* RequestException) on a failure status; an empty 'value' raises Exception
GetGroupId == /\ pc = "group"
              /\ groupCalls' = groupCalls + 1
              /\ \E resp \in {"http_error", "empty", "found"} :
                   /\ groupOutcome' = resp
                   /\ httpFailed' = (resp = "http_error")
                   /\ group_id' = (resp = "found")
                   /\ pc' = IF resp = "found" THEN "members_begin" ELSE "final"
                   /\ log_errors' = IF resp = "http_error" THEN Append(log_errors, "Network error occurred") ELSE IF resp = "empty" THEN log_errors \o <<"Group not found", "An error occurred">> ELSE log_errors
              /\ UNCHANGED <<env, rendered, email, azure_token, members, next_link, served, azure_users, tokenRequests, memberCalls, tokenOutcome, dbVars, reportVars, stdout>>

\* get_group_member, lines 93-94: members = [], next_link = the first URL
GetGroupMemberBegin == /\ pc = "members_begin"
                       /\ members' = <<>>
                       /\ served' = <<>>
                       /\ next_link' = 1
                       /\ pc' = "members_loop"
                       /\ UNCHANGED <<env, rendered, email, azure_token, group_id, azure_users, tokenRequests, groupCalls, memberCalls, tokenOutcome, groupOutcome, httpFailed, dbVars, reportVars, log_errors, stdout>>

\* ExtendMembers assigning the page instead of extending the list
ExtendMembersReplace(ms, value) == value

\* members.extend(data.get('value', []))
ExtendMembers(ms, value) == ms \o value

\* GetGroupMemberPage leaving the loop on a failure status and keeping the members fetched so far
GetGroupMemberPagePartial == /\ pc = "members_loop"
                             /\ next_link # 0
                             /\ memberCalls' = memberCalls + 1
                             /\ \/ /\ httpFailed' = TRUE
                                   /\ next_link' = 0
                                   /\ LogError("Network error occurred")
                                   /\ pc' = "members_return"
                                   /\ UNCHANGED <<members, served>>
                                \/ \E value \in PageValues, link \in {"url", "absent", "null", "empty"} :
                                     /\ link = "url" => next_link < MaxPages
                                     /\ members' = ExtendMembers(members, value)
                                     /\ served' = Append(served, value)
                                     /\ next_link' = IF link = "url" THEN next_link + 1 ELSE 0
                                     /\ pc' = IF link = "url" THEN "members_loop" ELSE "members_return"
                                     /\ UNCHANGED <<httpFailed, log_errors>>
                             /\ UNCHANGED <<env, rendered, email, azure_token, group_id, azure_users, tokenRequests, groupCalls, tokenOutcome, groupOutcome, dbVars, reportVars, stdout>>

\* GetGroupMemberPage with a limit of one page: the loop is left although a link was returned
GetGroupMemberPageLimit == /\ pc = "members_loop"
                           /\ next_link # 0
                           /\ memberCalls' = memberCalls + 1
                           /\ \/ /\ httpFailed' = TRUE
                                 /\ members' = <<>>
                                 /\ served' = <<>>
                                 /\ next_link' = 0
                                 /\ LogError("Network error occurred")
                                 /\ pc' = "final"
                              \/ \E value \in PageValues, link \in {"url", "absent", "null", "empty"} :
                                   /\ link = "url" => next_link < MaxPages
                                   /\ members' = ExtendMembers(members, value)
                                   /\ served' = Append(served, value)
                                   /\ next_link' = IF link = "url" THEN next_link + 1 ELSE 0
                                   /\ pc' = "members_return"
                                   /\ UNCHANGED <<httpFailed, log_errors>>
                           /\ UNCHANGED <<env, rendered, email, azure_token, group_id, azure_users, tokenRequests, groupCalls, tokenOutcome, groupOutcome, dbVars, reportVars, stdout>>

\* get_group_member, lines 96-102: one iteration of "while next_link"; the
\* response is a failure status, or a page with its records and a
\* continuation link that is a URL, absent, null or the empty string
GetGroupMemberPage == /\ pc = "members_loop"
                      /\ next_link # 0
                      /\ memberCalls' = memberCalls + 1
                      /\ \/ /\ httpFailed' = TRUE
                            /\ members' = <<>>
                            /\ served' = <<>>
                            /\ next_link' = 0
                            /\ LogError("Network error occurred")
                            /\ pc' = "final"
                         \/ \E value \in PageValues, link \in {"url", "absent", "null", "empty"} :
                              /\ link = "url" => next_link < MaxPages
                              /\ members' = ExtendMembers(members, value)
                              /\ served' = Append(served, value)
                              /\ next_link' = IF link = "url" THEN next_link + 1 ELSE 0
                              /\ pc' = IF link = "url" THEN "members_loop" ELSE "members_return"
                              /\ UNCHANGED <<httpFailed, log_errors>>
                      /\ UNCHANGED <<env, rendered, email, azure_token, group_id, azure_users, tokenRequests, groupCalls, tokenOutcome, groupOutcome, dbVars, reportVars, stdout>>

\* get_group_member, lines 104-109: the set of lower-cased identifiers is
\* built and returned; lower() of a null value raises AttributeError, which
\* main's generic handler logs
GetGroupMemberReturn == /\ pc = "members_return"
                        /\ IF LowerRaises(members) THEN LogError("An error occurred") /\ pc' = "final" /\ UNCHANGED azure_users ELSE azure_users' = ValidMembers(members) /\ pc' = "db" /\ UNCHANGED log_errors
                        /\ members' = <<>>
                        /\ served' = IF LowerRaises(members) THEN <<>> ELSE served
                        /\ UNCHANGED <<env, rendered, email, azure_token, group_id, next_link, tokenRequests, groupCalls, memberCalls, tokenOutcome, groupOutcome, httpFailed, dbVars, reportVars, stdout>>

\* FetchPostgresUsers without "except psycopg2.Error": the database error reaches main's handler
FetchPostgresUsersRaises == /\ pc = "db"
                            /\ dbConnects' = dbConnects + 1
                            /\ \/ \E catalog \in Catalogs :
                                    /\ dbOutcome' = "ok"
                                    /\ fetched' = FetchAll(catalog)
                                    /\ postgres_users' = MapRows(fetched')
                                    /\ pc' = "compare"
                                    /\ UNCHANGED <<log_errors, stdout>>
                               \/ /\ dbOutcome' = "db_error"
                                  /\ fetched' = <<>>
                                  /\ postgres_users' = <<>>
                                  /\ LogError("An error occurred")
                                  /\ pc' = "final"
                                  /\ UNCHANGED stdout
                               \/ \E catalog \in Catalogs :
                                    /\ dbOutcome' = "unexpected"
                                    /\ fetched' = FetchAll(catalog)
                                    /\ postgres_users' = <<>>
                                    /\ LogError("Unexpected Error while fetching PostgreSQL users")
                                    /\ pc' = "compare"
                                    /\ UNCHANGED stdout
                            /\ served' = <<>>
                            /\ UNCHANGED <<env, rendered, email, azure_token, group_id, members, next_link, azure_users, tokenRequests, groupCalls, memberCalls, tokenOutcome, groupOutcome, httpFailed, reportVars>>

\* FetchPostgresUsers returning the accounts mapped before the exception
FetchPostgresUsersPartial == /\ pc = "db"
                             /\ dbConnects' = dbConnects + 1
                             /\ \/ \E catalog \in Catalogs :
                                     /\ dbOutcome' = "ok"
                                     /\ fetched' = FetchAll(catalog)
                                     /\ postgres_users' = MapRows(fetched')
                                     /\ UNCHANGED <<log_errors, stdout>>
                                \/ /\ dbOutcome' = "db_error"
                                   /\ fetched' = <<>>
                                   /\ postgres_users' = <<>>
                                   /\ stdout' = Append(stdout, [kind |-> "Database error", text |-> <<>>])
                                   /\ UNCHANGED log_errors
                                \/ \E catalog \in Catalogs :
                                     /\ dbOutcome' = "unexpected"
                                     /\ fetched' = FetchAll(catalog)
                                     /\ \E k \in 0..Len(fetched') : postgres_users' = MapRows(SubSeq(fetched', 1, k))
                                     /\ LogError("Unexpected Error while fetching PostgreSQL users")
                                     /\ UNCHANGED stdout
                             /\ pc' = "compare"
                             /\ served' = <<>>
                             /\ UNCHANGED <<env, rendered, email, azure_token, group_id, members, next_link, azure_users, tokenRequests, groupCalls, memberCalls, tokenOutcome, groupOutcome, httpFailed, reportVars>>

\* fetch_postgres_users: connect, query, map the rows; psycopg2.Error is
\* printed and any other exception logged, both returning []; the other
\* exception may come after the rows were fetched, while they are mapped
FetchPostgresUsers == /\ pc = "db"
                      /\ dbConnects' = dbConnects + 1
                      /\ \/ \E catalog \in Catalogs :
                              /\ dbOutcome' = "ok"
                              /\ fetched' = FetchAll(catalog)
                              /\ postgres_users' = MapRows(fetched')
                              /\ UNCHANGED <<log_errors, stdout>>
                         \/ /\ dbOutcome' = "db_error"
                            /\ fetched' = <<>>
                            /\ postgres_users' = <<>>
                            /\ stdout' = Append(stdout, [kind |-> "Database error", text |-> <<>>])
                            /\ UNCHANGED log_errors
                         \/ \E catalog \in Catalogs :
                              /\ dbOutcome' = "unexpected"
                              /\ fetched' = FetchAll(catalog)
                              /\ postgres_users' = <<>>
                              /\ LogError("Unexpected Error while fetching PostgreSQL users")
                              /\ UNCHANGED stdout
                      /\ pc' = "compare"
                      /\ served' = <<>>
                      /\ UNCHANGED <<env, rendered, email, azure_token, group_id, members, next_link, azure_users, tokenRequests, groupCalls, memberCalls, tokenOutcome, groupOutcome, httpFailed, reportVars>>

\* PrepareComparison sorting postgres_users in place instead of a copy
PrepareComparisonSortsInPlace == /\ pc = "compare"
                                 /\ postgres_users' = SortedList(postgres_users)
                                 /\ table_data' = TableData(azure_users, postgres_users)
                                 /\ valid_users' = ValidUsers(azure_users, postgres_users)
                                 /\ users_to_delete' = UsersToDelete(azure_users, postgres_users)
                                 /\ summary_info' = SummaryInfo(azure_users, postgres_users, valid_users', users_to_delete')
                                 /\ pc' = "render"
                                 /\ UNCHANGED <<env, rendered, email, dirVars, fetched, dbConnects, dbOutcome, report_content, output_stream, report_file, fileOutcome, log_errors, stdout>>

\* main, lines 397-421: the comparison rows, the two lists and the summary
PrepareComparison == /\ pc = "compare"
                     /\ table_data' = TableData(azure_users, postgres_users)
                     /\ valid_users' = ValidUsers(azure_users, postgres_users)
                     /\ users_to_delete' = UsersToDelete(azure_users, postgres_users)
                     /\ summary_info' = SummaryInfo(azure_users, postgres_users, valid_users', users_to_delete')
                     /\ pc' = "render"
                     /\ UNCHANGED <<env, rendered, email, dirVars, dbVars, report_content, output_stream, report_file, fileOutcome, log_errors, stdout>>

\* main, line 424: report_content = write_report(...)
GenerateReport == /\ pc = "render"
                  /\ report_content' = WriteReport(table_data, summary_info, users_to_delete)
                  /\ pc' = "print"
                  /\ UNCHANGED <<env, rendered, email, dirVars, dbVars, table_data, valid_users, users_to_delete, summary_info, output_stream, report_file, fileOutcome, log_errors, stdout>>

\* main, line 427: print(report_content, file=output_stream)
PrintReport == /\ pc = "print"
               /\ output_stream' = Append(output_stream, report_content)
               /\ pc' = "write"
               /\ UNCHANGED <<env, rendered, email, dirVars, dbVars, table_data, valid_users, users_to_delete, summary_info, report_content, report_file, fileOutcome, log_errors, stdout>>

\* main, lines 430-431: open(..., "w") truncates the file, f.write fills it;
\* an OSError of either is logged by main's generic handler
WriteReportFile == /\ pc = "write"
                   /\ \E outcome \in {"ok", "open_error", "write_error"} :
                        /\ fileOutcome' = outcome
                        /\ report_file' = IF outcome = "ok" THEN [state |-> "written", content |-> report_content] ELSE IF outcome = "write_error" THEN [state |-> "truncated", content |-> NoReport] ELSE report_file
                        /\ log_errors' = IF outcome = "ok" THEN log_errors ELSE Append(log_errors, "An error occurred")
                   /\ pc' = "final"
                   /\ UNCHANGED <<env, rendered, email, dirVars, dbVars, table_data, valid_users, users_to_delete, summary_info, report_content, output_stream, stdout>>

\* main, lines 442-445: the captured output and the logs are printed
PrintOutputAndLogs == /\ pc = "final"
                      /\ stdout' = stdout \o <<[kind |-> "output", text |-> output_stream], [kind |-> "Logs:", text |-> log_errors]>>
                      /\ pc' = "done"
                      /\ UNCHANGED <<env, rendered, email, dirVars, dbVars, reportVars, log_errors>>

Next == \/ CheckEnvironment
        \/ GetAzureToken
        \/ GetGroupId
        \/ GetGroupMemberBegin
        \/ GetGroupMemberPage
        \/ GetGroupMemberReturn
        \/ FetchPostgresUsers
        \/ PrepareComparison
        \/ GenerateReport
        \/ PrintReport
        \/ WriteReportFile
        \/ PrintOutputAndLogs

Spec == Init /\ [][Next]_vars

(***************************************************************************)
(* The renderers on their own: every renderer applied to the comparison of *)
(* a directory set and an account list drawn from bounded sets             *)
(***************************************************************************)
\* the account lists handed over: any order, duplicates allowed
RenderLists == UNION {[1..k -> {n_alice, n_Alice, n_bob, n_carol}] : k \in 0..MaxRenderList}

\* main at the call of the renderer (line 424), with the comparison computed
InitRender == /\ env = [v \in RequiredEnvVars |-> "set"]
              /\ rendered = NothingRendered
              /\ email = NoEmail
              /\ pc = "renderers"
              /\ azure_token = TRUE
              /\ group_id = TRUE
              /\ members = <<>>
              /\ next_link = 0
              /\ served = <<>>
              /\ azure_users \in SUBSET {n_alice, n_bob}
              /\ fetched = <<>>
              /\ postgres_users \in RenderLists
              /\ table_data = TableData(azure_users, postgres_users)
              /\ valid_users = ValidUsers(azure_users, postgres_users)
              /\ users_to_delete = UsersToDelete(azure_users, postgres_users)
              /\ summary_info = SummaryInfo(azure_users, postgres_users, valid_users, users_to_delete)
              /\ report_content = NoReport
              /\ output_stream = <<>>
              /\ report_file = OldFile
              /\ log_errors = <<>>
              /\ stdout = <<>>
              /\ tokenRequests = 1
              /\ groupCalls = 1
              /\ memberCalls = 1
              /\ dbConnects = 1
              /\ tokenOutcome = "token"
              /\ groupOutcome = "found"
              /\ httpFailed = FALSE
              /\ dbOutcome = "ok"
              /\ fileOutcome = "none"

\* one renderer is called with table_data, summary_info and users_to_delete
CallRenderer == /\ pc = "renderers"
                /\ \E r \in Renderers :
                     /\ ~rendered[r].made
                     /\ rendered' = [rendered EXCEPT ![r] = Render(r, table_data, summary_info, users_to_delete)]
                /\ UNCHANGED <<env, email, pc, dirVars, dbVars, reportVars, log_errors, stdout>>

NextRender == CallRenderer

SpecRender == InitRender /\ [][NextRender]_vars

(***************************************************************************)
(* A later invocation of main in the same process: the module-level        *)
(* output_stream and log_stream, the standard output and the report file   *)
(* are as an earlier, successful run left them                             *)
(***************************************************************************)
\* the inputs of the earlier run: its directory set and its account list
EarlierInputs == {<<{n_alice}, <<n_alice>>>>, <<{}, <<n_carol>>>>, <<{n_alice, n_bob}, <<n_alice, n_carol>>>>}

\* the report the earlier run generated from its inputs
EarlierReport(in) == WriteReport(TableData(in[1], in[2]), SummaryInfo(in[1], in[2], ValidUsers(in[1], in[2]), UsersToDelete(in[1], in[2])), UsersToDelete(in[1], in[2]))

\* main is entered again: its locals are fresh, the module-level buffers are not
InitRuns == /\ env = [v \in RequiredEnvVars |-> "set"]
            /\ rendered = NothingRendered
            /\ email = NoEmail
            /\ pc = "start"
            /\ azure_token = FALSE
            /\ group_id = FALSE
            /\ members = <<>>
            /\ next_link = 0
            /\ served = <<>>
            /\ azure_users = {}
            /\ fetched = <<>>
            /\ postgres_users = <<>>
            /\ table_data = <<>>
            /\ valid_users = <<>>
            /\ users_to_delete = <<>>
            /\ summary_info = NoSummary
            /\ report_content = NoReport
            /\ \E in \in EarlierInputs :
                 /\ output_stream = <<EarlierReport(in)>>
                 /\ report_file = [state |-> "written", content |-> EarlierReport(in)]
                 /\ stdout = <<[kind |-> "output", text |-> <<EarlierReport(in)>>], [kind |-> "Logs:", text |-> <<>>]>>
            /\ log_errors = <<>>
            /\ tokenRequests = 0
            /\ groupCalls = 0
            /\ memberCalls = 0
            /\ dbConnects = 0
            /\ tokenOutcome = "none"
            /\ groupOutcome = "none"
            /\ httpFailed = FALSE
            /\ dbOutcome = "none"
            /\ fileOutcome = "none"

SpecRuns == InitRuns /\ [][Next]_vars

\* main up to the return of get_group_member (line 392), and the final
\* prints of a run aborted before it
NextMembers == \/ CheckEnvironment
               \/ GetAzureToken
               \/ GetGroupId
               \/ GetGroupMemberBegin
               \/ GetGroupMemberPage
               \/ GetGroupMemberReturn
               \/ PrintOutputAndLogs

\* every step is taken once it is enabled: the interpreter runs on and
\* every request is answered
SpecLive == Init /\ [][NextMembers]_vars /\ WF_vars(NextMembers)

(***************************************************************************)
(* The email-sending entry point: main of first.py from the database fetch *)
(* (line 580) on, with the directory members already fetched               *)
(***************************************************************************)
\* main of first.py after get_group_members returned
InitFirst == /\ env = [v \in RequiredEnvVars |-> "set"]
             /\ rendered = NothingRendered
             /\ email = NoEmail
             /\ pc = "db"
             /\ azure_token = TRUE
             /\ group_id = TRUE
             /\ members = <<>>
             /\ next_link = 0
             /\ served = <<>>
             /\ azure_users \in SUBSET {n_alice, n_bob}
             /\ fetched = <<>>
             /\ postgres_users = <<>>
             /\ table_data = <<>>
             /\ valid_users = <<>>
             /\ users_to_delete = <<>>
             /\ summary_info = NoSummary
             /\ report_content = NoReport
             /\ output_stream = <<>>
             /\ report_file = OldFile
             /\ log_errors = <<>>
             /\ stdout = <<>>
             /\ tokenRequests = 1
             /\ groupCalls = 1
             /\ memberCalls = 1
             /\ dbConnects = 0
             /\ tokenOutcome = "token"
             /\ groupOutcome = "found"
             /\ httpFailed = FALSE
             /\ dbOutcome = "none"
             /\ fileOutcome = "none"

\* first.py fetch_postgres_users: the rows without the default users, no
\* prefix is stripped; psycopg2.Error and any other exception are logged and
\* return []. The query names the column 'username': a server whose pg_user
\* view has no such column answers with a psycopg2.Error
first_fetch_postgres_users == /\ pc = "db"
                              /\ dbConnects' = dbConnects + 1
                              /\ \/ \E catalog \in Catalogs :
                                      /\ dbOutcome' = "ok"
                                      /\ fetched' = FetchAll(catalog)
                                      /\ postgres_users' = SelectSeq(fetched', NotDefaultUser)
                                      /\ UNCHANGED log_errors
                                 \/ /\ dbOutcome' = "db_error"
                                    /\ fetched' = <<>>
                                    /\ postgres_users' = <<>>
                                    /\ LogError("Database error")
                                 \/ \E catalog \in Catalogs :
                                      /\ dbOutcome' = "unexpected"
                                      /\ fetched' = FetchAll(catalog)
                                      /\ postgres_users' = <<>>
                                      /\ LogError("Unexpected error while fetching PostgreSQL users")
                              /\ pc' = "compare"
                              /\ UNCHANGED <<env, rendered, email, azure_token, group_id, members, next_link, served, azure_users, table_data, valid_users, users_to_delete, summary_info, report_content, output_stream, report_file, stdout, tokenRequests, groupCalls, memberCalls, tokenOutcome, groupOutcome, httpFailed, fileOutcome>>

\* first.py main, lines 582-600: the comparison rows, the two lists and the summary
first_PrepareComparison == /\ pc = "compare"
                           /\ table_data' = TableData(azure_users, postgres_users)
                           /\ valid_users' = ValidUsers(azure_users, postgres_users)
                           /\ users_to_delete' = UsersToDelete(azure_users, postgres_users)
                           /\ summary_info' = SummaryInfo(azure_users, postgres_users, valid_users', users_to_delete')
                           /\ pc' = "render"
                           /\ UNCHANGED <<env, rendered, email, azure_token, group_id, members, next_link, served, azure_users, fetched, postgres_users, report_content, output_stream, report_file, log_errors, stdout, tokenRequests, groupCalls, memberCalls, dbConnects, tokenOutcome, groupOutcome, httpFailed, dbOutcome, fileOutcome>>

\* first.py main, lines 601-602: html_content and text_content are generated
first_GenerateReports == /\ pc = "render"
                         /\ rendered' = [rendered EXCEPT !["first.generate_html_report"] = first_generate_html_report(table_data, summary_info, users_to_delete)]
                         /\ report_content' = first_write_report(table_data, summary_info, users_to_delete)
                         /\ pc' = "email"
                         /\ UNCHANGED <<env, email, azure_token, group_id, members, next_link, served, azure_users, fetched, postgres_users, table_data, valid_users, users_to_delete, summary_info, output_stream, report_file, log_errors, stdout, tokenRequests, groupCalls, memberCalls, dbConnects, tokenOutcome, groupOutcome, httpFailed, dbOutcome, fileOutcome>>

\* the values of SMTP_PORT: unset (the default '587'), a number, or a string
\* that int() rejects, the empty string among them
SmtpPorts == {"unset", "numeric", "not_numeric"}

\* the subject line of the message
Subject(del) == IF del # <<>> THEN "Users Need Deletion" ELSE "All Users Synchronized"

\* first.py main line 605 and send_email_report: int(SMTP_PORT) is evaluated
\* before the try block, its ValueError reaches main's "except ValueError";
\* an incomplete configuration is logged and returns; an exception while the
\* message is built and sent is logged and returns
send_email_report == /\ pc = "email"
                     /\ \E port \in SmtpPorts, complete \in BOOLEAN, sends \in BOOLEAN :
                          IF port = "not_numeric"
                          THEN /\ email' = [outcome |-> "port_error", subject |-> "none"]
                               /\ LogError("Configuration error")
                               /\ pc' = "final"
                          ELSE IF ~complete
                               THEN /\ email' = [outcome |-> "incomplete", subject |-> "none"]
                                    /\ LogError("Email configuration incomplete")
                                    /\ pc' = "print"
                               ELSE /\ email' = [outcome |-> IF sends THEN "sent" ELSE "failed", subject |-> Subject(users_to_delete)]
                                    /\ log_errors' = IF sends THEN log_errors ELSE Append(log_errors, "Failed to send email")
                                    /\ pc' = "print"
                     /\ UNCHANGED <<env, rendered, azure_token, group_id, members, next_link, served, azure_users, fetched, postgres_users, table_data, valid_users, users_to_delete, summary_info, report_content, output_stream, report_file, stdout, tokenRequests, groupCalls, memberCalls, dbConnects, tokenOutcome, groupOutcome, httpFailed, dbOutcome, fileOutcome>>

\* first.py main, line 608: print(text_content, file=output_stream)
first_PrintReport == /\ pc = "print"
                     /\ output_stream' = Append(output_stream, report_content)
                     /\ pc' = "write"
                     /\ UNCHANGED <<env, rendered, email, azure_token, group_id, members, next_link, served, azure_users, fetched, postgres_users, table_data, valid_users, users_to_delete, summary_info, report_content, report_file, log_errors, stdout, tokenRequests, groupCalls, memberCalls, dbConnects, tokenOutcome, groupOutcome, httpFailed, dbOutcome, fileOutcome>>

\* first.py main, lines 611-612: open(..., "w") truncates the file, f.write
\* fills it; an OSError of either is logged by main's generic handler
first_WriteReportFile == /\ pc = "write"
                         /\ \E outcome \in {"ok", "open_error", "write_error"} :
                              /\ fileOutcome' = outcome
                              /\ report_file' = IF outcome = "ok" THEN [state |-> "written", content |-> report_content] ELSE IF outcome = "write_error" THEN [state |-> "truncated", content |-> NoReport] ELSE report_file
                              /\ log_errors' = IF outcome = "ok" THEN log_errors ELSE Append(log_errors, "An error occurred")
                         /\ pc' = "final"
                         /\ UNCHANGED <<env, rendered, email, azure_token, group_id, members, next_link, served, azure_users, fetched, postgres_users, table_data, valid_users, users_to_delete, summary_info, report_content, output_stream, stdout, tokenRequests, groupCalls, memberCalls, dbConnects, tokenOutcome, groupOutcome, httpFailed, dbOutcome>>

\* first.py main, lines 623-626: the captured output and the logs are printed
first_PrintOutputAndLogs == /\ pc = "final"
                            /\ stdout' = stdout \o <<[kind |-> "output", text |-> output_stream], [kind |-> "Logs:", text |-> log_errors]>>
                            /\ pc' = "done"
                            /\ UNCHANGED <<env, rendered, email, azure_token, group_id, members, next_link, served, azure_users, fetched, postgres_users, table_data, valid_users, users_to_delete, summary_info, report_content, output_stream, report_file, log_errors, tokenRequests, groupCalls, memberCalls, dbConnects, tokenOutcome, groupOutcome, httpFailed, dbOutcome, fileOutcome>>

NextFirst == \/ first_fetch_postgres_users
             \/ first_PrepareComparison
             \/ first_GenerateReports
             \/ send_email_report
             \/ first_PrintReport
             \/ first_WriteReportFile
             \/ first_PrintOutputAndLogs

SpecFirst == InitFirst /\ [][NextFirst]_vars

(***************************************************************************)
(* Properties                                                              *)
(***************************************************************************)
\* the comparison of main (lines 397-421) has been computed in this run
Compared == pc \in {"render", "print", "write"} \/ fileOutcome # "none"

\* the run was aborted before the database fetch and produced nothing
NothingProduced == /\ pc \in {"final", "done"}
                   /\ dbConnects = 0
                   /\ dbOutcome = "none"
                   /\ table_data = <<>>
                   /\ summary_info = NoSummary
                   /\ ~report_content.made
                   /\ output_stream = <<>>
                   /\ report_file = OldFile
                   /\ fileOutcome = "none"

\* the number of occurrences of x in the list s
Occurrences(s, x) == Cardinality({i \in 1..Len(s) : s[i] = x})

\* C1: the comparison has exactly len(postgres_users) rows, one row per
\* entry of postgres_users with duplicates counted, in ascending order of
\* the identifier
C1_OneRowPerAccountSorted == Compared => /\ Len(table_data) = Len(postgres_users)
                                         /\ \A i \in 1..Len(postgres_users) : Occurrences(postgres_users, postgres_users[i]) = Cardinality({j \in 1..Len(table_data) : table_data[j].NTID = postgres_users[i]})
                                         /\ \A j \in 1..Len(table_data) : \E i \in 1..Len(postgres_users) : postgres_users[i] = table_data[j].NTID
                                         /\ \A j \in 1..(Len(table_data) - 1) : ~StrLess(table_data[j + 1].NTID, table_data[j].NTID)

\* a fetched list that is not sorted and holds an identifier twice has been compared
C1_Witness == /\ Compared
              /\ postgres_users = <<n_bob, n_carol, n_bob>>
              /\ Len(table_data) = 3

\* C2: the row of every database account has status 'Valid user' if the
\* identifier is in the directory member set and 'Needs to be deleted'
\* otherwise
C2_StatusIffMember == Compared => \A i \in 1..Len(postgres_users) :
                          /\ \E j \in 1..Len(table_data) : table_data[j].NTID = postgres_users[i]
                          /\ \A j \in 1..Len(table_data) : (table_data[j].NTID = postgres_users[i]) => (table_data[j].Status = (IF postgres_users[i] \in azure_users THEN "Valid user" ELSE "Needs to be deleted"))

\* directory {alice, bob} and database [alice, carol]: alice valid, carol to delete
C2_Witness == /\ Compared
              /\ azure_users = {n_alice, n_bob}
              /\ postgres_users = <<n_alice, n_carol>>
              /\ table_data[1].Status = "Valid user"
              /\ table_data[2].Status = "Needs to be deleted"

\* C3: a database account whose name differs only in letter case from a
\* directory member is classified valid
C3_CaseInsensitiveMembership == Compared => \A j \in 1..Len(table_data) : (\E m \in azure_users : Lower(m) = Lower(table_data[j].NTID)) => table_data[j].Status = "Valid user"

\* C4: no identifier of DEFAULT_USERS is in the list fetch_postgres_users returns
C4_NoDefaultUserReturned == \A i \in 1..Len(postgres_users) : postgres_users[i] \notin DEFAULT_USERS

\* the identifier m is in no row, in neither list and not in the report's list of users to delete
NotSurfaced(m) == /\ \A j \in 1..Len(table_data) : table_data[j].NTID # m
                  /\ \A j \in 1..Len(valid_users) : valid_users[j] # m
                  /\ \A j \in 1..Len(users_to_delete) : users_to_delete[j] # m
                  /\ \A j \in 1..Len(report_content.deleteList) : report_content.deleteList[j] # m

\* C5: a directory member without a database account is in no row, not in
\* the valid list and not in the to-delete list; an empty database list gives
\* no rows and an empty to-delete list
C5_DirectoryOnlyNeverSurfaced == Compared => /\ \A m \in azure_users : (\A i \in 1..Len(postgres_users) : postgres_users[i] # m) => NotSurfaced(m)
                                             /\ (postgres_users = <<>>) => (table_data = <<>> /\ users_to_delete = <<>> /\ valid_users = <<>>)

\* directory {eve}, database []: the run ends with no rows and nothing to delete
C5_Witness == /\ pc = "done"
              /\ fileOutcome = "ok"
              /\ azure_users = {n_eve}
              /\ dbOutcome = "ok"
              /\ postgres_users = <<>>
              /\ report_content.made
              /\ report_content.table = <<>>

\* the report of this run was generated and put on the output stream, and it
\* states zero database accounts and no user to delete
EmptyReportProduced == /\ fileOutcome # "none"
                       /\ report_content.made
                       /\ report_content.summary.total_rds = 0
                       /\ report_content.dashboard.total_rds = 0
                       /\ report_content.summary.to_delete = 0
                       /\ ~report_content.deleteSection
                       /\ report_content.deleteList = <<>>
                       /\ output_stream = <<report_content>>
                       /\ (fileOutcome = "ok") => (report_file = [state |-> "written", content |-> report_content])

\* C6: after a database error fetch_postgres_users has returned [], and the
\* run ends with a report that was generated and put on the output stream
\* and that states zero database accounts and no user to delete
C6_DatabaseErrorGivesEmptyReport == (dbOutcome = "db_error") => /\ postgres_users = <<>>
                                                                /\ pc \in {"compare", "render", "print", "write", "final", "done"}
                                                                /\ (pc \in {"final", "done"}) => EmptyReportProduced

\* a run with a database error and a non-empty directory set has written its report
C6_Witness == /\ pc = "done"
              /\ dbOutcome = "db_error"
              /\ azure_users # {}
              /\ report_file.state = "written"

\* C7: when the group lookup returns zero groups the run ends without a
\* member request, a database fetch, a comparison or a report
C7_NoGroupAborts == groupOutcome = "empty" => /\ NothingProduced
                                              /\ memberCalls = 0
                                              /\ azure_users = {}
                                              /\ log_errors = <<"Group not found", "An error occurred">>

\* a run whose group lookup returned zero groups has ended
C7_Witness == /\ pc = "done"
              /\ groupOutcome = "empty"
              /\ groupCalls = 1

\* no token request, no directory call, no database connection, no report
\* write; the run is before its check or ended by the configuration error
NoIOConfigurationError == /\ tokenRequests = 0
                          /\ groupCalls = 0
                          /\ memberCalls = 0
                          /\ dbConnects = 0
                          /\ report_file = OldFile
                          /\ output_stream = <<>>
                          /\ pc \in {"start", "final", "done"}
                          /\ (pc # "start") => (log_errors = <<"Configuration error">>)

\* C8: when a required environment variable is absent or empty there is no
\* token request, no directory call, no database connection and no report
\* write, and the run ends with the configuration error
C8_MissingConfigNoIO == (\E v \in RequiredEnvVars : env[v] \in {"absent", "empty"}) => NoIOConfigurationError

\* a run with only DB_PORT empty has ended
C8_Witness == /\ pc = "done"
              /\ env["DB_PORT"] = "empty"
              /\ \A v \in RequiredEnvVars \ {"DB_PORT"} : env[v] = "set"
              /\ log_errors = <<"Configuration error">>

\* C9: after a failure status of the directory service the run has ended:
\* the members fetched so far are dropped, there is no database fetch and
\* no report
C9_DirectoryFailureAborts == httpFailed => /\ NothingProduced
                                           /\ members = <<>>
                                           /\ azure_users = {}

\* a member page failed after a page that succeeded
C9_Witness == /\ pc = "done"
              /\ httpFailed
              /\ memberCalls >= 2

\* the lower-cased identifiers of the records of all the pages served
IdentifiersOfPages(pages) == {Lower(pages[k][i].val) : <<k, i>> \in {<<k, i>> \in (1..Len(pages)) \X (1..MaxPageRecs + 1) : i <= Len(pages[k]) /\ pages[k][i].has}}

\* the records of page k are in the list ms, in order, after those of the pages before
PageKept(pages, ms, k) == \E off \in 0..Len(ms) : /\ off = Len(ms) - Len(pages[k]) - Cardinality({<<j, i>> \in (1..Len(pages)) \X (1..MaxPageRecs + 1) : j > k /\ i <= Len(pages[j])})
                                                  /\ \A i \in 1..Len(pages[k]) : ms[off + i] = pages[k][i]

\* the list holds the records of every page served, one request was made per page
AllServedKept == /\ memberCalls = Len(served)
                 /\ \A k \in 1..Len(served) : PageKept(served, members, k)

\* C10: during the member fetch the list holds the records of every page
\* served so far; a page is requested only inside the loop, which is left
\* with the first response without continuation link; the set returned is
\* that of the identifiers of all the pages served
C10_AllPagesAccumulated == [][((pc \in {"members_loop", "members_return"}) => AllServedKept) /\ ((pc # "members_loop") => (memberCalls' = memberCalls)) /\ ((pc = "members_return" /\ pc' = "db") => (azure_users' = IdentifiersOfPages(served)))]_vars

\* the member fetch has returned after two or more pages, with identifiers of two pages
C10_Witness == /\ pc = "db"
               /\ memberCalls >= 2
               /\ azure_users = {n_alice, n_bob}

\* the string has no upper-case letter
IsLowerCase(x) == \A i \in 1..Len(x) : Ord(x[i]) < Ord("A") \/ Ord(x[i]) > Ord("Z")

\* the set S holds the lower-cased attribute of every record of ms that has
\* the attribute, and nothing else
ExactlyExposed(S, ms) == /\ \A i \in 1..Len(ms) : ms[i].has => Lower(ms[i].val) \in S
                         /\ \A x \in S : IsLowerCase(x) /\ \E i \in 1..Len(ms) : ms[i].has /\ Lower(ms[i].val) = x

\* C11: when no record has a null attribute the member fetch returns, with
\* or without records lacking the attribute, and the set it returns holds
\* exactly the lower-cased attribute of the records that have it
C11_MemberSetLowerCasedSkipping == [][(pc = "members_return" /\ ~(\E i \in 1..Len(members) : members[i].has /\ members[i].null)) => (pc' = "db" /\ ExactlyExposed(azure_users', members))]_vars

\* the fetch has returned {alice} from a record 'Alice' and a record without the attribute
C11_Witness == /\ pc = "db"
               /\ served = <<<<[has |-> TRUE, null |-> FALSE, val |-> n_Alice]>>, <<[has |-> FALSE, null |-> FALSE, val |-> <<>>]>>>>
               /\ azure_users = {n_alice}

\* the number of rows of the comparison with the given status
RowsWithStatus(st) == Cardinality({j \in 1..Len(table_data) : table_data[j].Status = st})

\* C12: the summary states the number of rows as the total of database
\* accounts, the size of the directory member set, the number of valid rows
\* and the number of rows to delete, and the last two add up to the total
C12_SummaryCountsConsistent == Compared => /\ summary_info.total_rds = Len(table_data)
                                           /\ summary_info.total_azure = Cardinality(azure_users)
                                           /\ summary_info.valid = RowsWithStatus("Valid user")
                                           /\ summary_info.to_delete = RowsWithStatus("Needs to be deleted")
                                           /\ summary_info.valid + summary_info.to_delete = summary_info.total_rds

\* a list with bob twice and carol, bob in the directory: 2 valid, 1 to delete, 3 in all
C12_Witness == /\ Compared
               /\ postgres_users = <<n_bob, n_carol, n_bob>>
               /\ azure_users = {n_bob}
               /\ summary_info = [total_rds |-> 3, total_azure |-> 1, valid |-> 2, to_delete |-> 1]

\* C14: after an unexpected (non-database) exception inside the database
\* account fetch the run ends without a report
C14_UnexpectedFetchFailureIsFatal == (dbOutcome = "unexpected" /\ pc = "done") => (~report_content.made /\ output_stream = <<>> /\ report_file = OldFile)

\* the identifiers of the rows of the comparison with the given status
IdentifiersWithStatus(st) == {table_data[j].NTID : j \in {k \in 1..Len(table_data) : table_data[k].Status = st}}

\* C15: every database account is in exactly one of the valid list and the
\* to-delete list; the to-delete list holds exactly the identifiers of the
\* rows to delete, the valid list exactly those of the valid rows, and no
\* identifier is in both
C15_ListsPartitionAccounts == Compared => /\ \A i \in 1..Len(postgres_users) : (postgres_users[i] \in Elems(valid_users)) # (postgres_users[i] \in Elems(users_to_delete))
                                          /\ Elems(users_to_delete) = IdentifiersWithStatus("Needs to be deleted")
                                          /\ Elems(valid_users) = IdentifiersWithStatus("Valid user")
                                          /\ Elems(valid_users) \cap Elems(users_to_delete) = {}
                                          /\ Len(valid_users) + Len(users_to_delete) = Len(postgres_users)

\* directory {alice, bob}, database [alice, carol]: valid [alice], to delete [carol]
C15_Witness == /\ Compared
               /\ azure_users = {n_alice, n_bob}
               /\ postgres_users = <<n_alice, n_carol>>
               /\ valid_users = <<n_alice>>
               /\ users_to_delete = <<n_carol>>

\* the list s is in ascending order
IsAscending(s) == \A j \in 1..(Len(s) - 1) : ~StrLess(s[j + 1], s[j])

\* what was rendered about the users to delete: a section exactly when the
\* list handed over is not empty, listing its identifiers in ascending order
DeletePartFaithful(d) == /\ d.deleteSection <=> (users_to_delete # <<>>)
                         /\ IsAscending(d.deleteList)
                         /\ Len(d.deleteList) = Len(users_to_delete)
                         /\ \A i \in 1..Len(users_to_delete) : Occurrences(d.deleteList, users_to_delete[i]) = Occurrences(users_to_delete, users_to_delete[i])

\* C16: every renderer lists exactly the identifiers of users_to_delete, in
\* ascending order, and emits the section if and only if the list is not empty
C16_RenderersListToDeleteSorted == \A r \in Renderers : rendered[r].made => DeletePartFaithful(rendered[r].delete)

\* every renderer has rendered the list [carol, Alice], which is not in ascending order
C16_Witness == /\ \A r \in Renderers : rendered[r].made
               /\ users_to_delete = <<n_carol, n_Alice>>
               /\ rendered["first.write_report"].delete.deleteList = <<n_Alice, n_carol>>

\* C17: the list returned by fetch_postgres_users is in ascending order
C17_FetchedAccountsSorted == (dbOutcome = "ok") => IsAscending(postgres_users)

\* C18: no identifier occurs twice in the list returned by fetch_postgres_users
C18_FetchedAccountsUnique == \A i \in 1..Len(postgres_users) : \A j \in 1..Len(postgres_users) : (postgres_users[i] = postgres_users[j]) => (i = j)

\* the name without the literal prefix 'test' when it starts with it, else the name
WithoutLiteralPrefix(name) == IF StartsWith(name, n_test) THEN SubSeq(name, Len(n_test) + 1, Len(name)) ELSE name

\* the rows that pass the exclusion of the default users, in the order fetched
KeptRows == SelectSeq(fetched, LAMBDA u : u \notin DEFAULT_USERS)

\* C19: every identifier returned is the account name with exactly the
\* prefix 'test' removed, or the unchanged name when it does not start with
\* it, and is not empty when the name is longer than the prefix
C19_StripsExactlyLiteralPrefix == (dbOutcome = "ok") => /\ Len(postgres_users) = Len(KeptRows)
                                                        /\ \A i \in 1..Len(postgres_users) : postgres_users[i] = WithoutLiteralPrefix(KeptRows[i])
                                                        /\ \A i \in 1..Len(postgres_users) : (Len(KeptRows[i]) > Len(n_test)) => (postgres_users[i] # <<>>)

\* every step made so far was preceded by the success of the step before it
StepsInOrder == /\ (tokenRequests > 0) => (\A v \in RequiredEnvVars : env[v] = "set")
                /\ (groupCalls > 0) => (tokenRequests = 1 /\ tokenOutcome = "token")
                /\ (memberCalls > 0) => (groupCalls = 1 /\ groupOutcome = "found")
                /\ (dbConnects > 0) => (memberCalls > 0 /\ ~httpFailed /\ next_link = 0 /\ members = <<>>)
                /\ (table_data # <<>> \/ summary_info # NoSummary) => (dbConnects = 1 /\ dbOutcome # "none")
                /\ report_content.made => (dbConnects = 1 /\ pc \in {"print", "write", "final", "done"})
                /\ (output_stream # <<>>) => (report_content.made /\ output_stream = <<report_content>>)
                /\ (fileOutcome # "none") => (output_stream # <<>>)
                /\ (report_file # OldFile) => (fileOutcome \in {"ok", "write_error"})

\* C20: a run makes each step at most once (the member pages apart) and in
\* the order check, token, group lookup, member fetch, database fetch,
\* comparison and summary, rendering, print and write, each only after the
\* one before has returned; the database is not queried after a failure of
\* the directory
C20_LinearPipeline == /\ tokenRequests <= 1
                      /\ groupCalls <= 1
                      /\ dbConnects <= 1
                      /\ StepsInOrder
                      /\ (httpFailed \/ groupOutcome = "empty" \/ tokenOutcome = "no_token") => (dbConnects = 0)

\* a run has gone through every step: two member pages, a database fetch with rows, the report written
C20_Witness == /\ pc = "done"
               /\ memberCalls = 2
               /\ dbOutcome = "ok"
               /\ table_data # <<>>
               /\ fileOutcome = "ok"
               /\ report_file = [state |-> "written", content |-> report_content]

\* C21: the output a run prints at its end holds the report of that run
\* and nothing else: nothing at all when the run was aborted
C21_OutputOnlyOfThisRun == (pc = "done") => (stdout[Len(stdout) - 1].text = (IF report_content.made THEN <<report_content>> ELSE <<>>))

\* C22: from the comparison to the end of the run, no step changes the
\* directory member set or the database account list
C22_InputsUnchanged == [][(pc \in {"compare", "render", "print", "write", "final"}) => (azure_users' = azure_users /\ postgres_users' = postgres_users)]_vars

\* an unsorted account list has been compared and summarised and is still unsorted
C22_Witness == /\ pc = "done"
               /\ fileOutcome = "ok"
               /\ azure_users = {n_bob}
               /\ postgres_users = <<n_carol, n_bob>>
               /\ table_data[1].NTID = n_bob
               /\ summary_info # NoSummary

\* C23: in every row 'In Azure' is 'Yes' exactly when the status is
\* 'Valid user' and 'No' exactly when it is 'Needs to be deleted', and
\* 'In RDS' is 'Yes'
C23_FlagsMatchStatus == \A j \in 1..Len(table_data) :
                            /\ table_data[j].InRDS = "Yes"
                            /\ table_data[j].InAzure \in {"Yes", "No"}
                            /\ table_data[j].Status \in {"Valid user", "Needs to be deleted"}
                            /\ (table_data[j].InAzure = "Yes") <=> (table_data[j].Status = "Valid user")
                            /\ (table_data[j].InAzure = "No") <=> (table_data[j].Status = "Needs to be deleted")

\* a comparison with a row of each kind
C23_Witness == /\ Compared
               /\ \E i, j \in 1..Len(table_data) : table_data[i].InAzure = "Yes" /\ table_data[j].InAzure = "No" /\ table_data[j].Status = "Needs to be deleted"

\* the member list holds a record with the attribute and a null value
HasNullValue == \E i \in 1..Len(members) : members[i].has /\ members[i].null

\* get_group_member returns: the run is aborted with one logged error
\* when a value is null, and otherwise only the keyless records are skipped
ReturnStep == IF HasNullValue
              THEN pc' = "final" /\ log_errors' = Append(log_errors, "An error occurred") /\ azure_users' = azure_users /\ dbConnects' = 0 /\ ~report_content'.made /\ output_stream' = <<>>
              ELSE pc' = "db" /\ log_errors' = log_errors /\ azure_users' = {Lower(members[i].val) : i \in {j \in 1..Len(members) : members[j].has}}

\* C24: a record with the attribute and a null value is not skipped: the
\* member fetch fails, main's generic handler logs it, the database is not
\* queried and no report is produced; only keyless records are skipped
C24_NullValueAborts == [][(pc = "members_return") => ReturnStep]_vars /\ []((pc \in {"final", "done"} /\ dbConnects = 0) => (~report_content.made /\ output_stream = <<>> /\ report_file = OldFile))

\* a run whose member pages were all served and which ended at the lower-casing
C24_Witness == /\ pc = "done"
               /\ groupOutcome = "found"
               /\ memberCalls = 2
               /\ ~httpFailed
               /\ dbConnects = 0
               /\ log_errors = <<"An error occurred">>
               /\ report_file = OldFile

\* C26: a token response without an access token aborts the run before
\* the group lookup: no directory call, no database query, no report
C26_NoTokenAborts == (tokenOutcome = "no_token") => /\ pc \in {"final", "done"}
                                                   /\ tokenRequests = 1
                                                   /\ groupCalls = 0
                                                   /\ memberCalls = 0
                                                   /\ dbConnects = 0
                                                   /\ ~report_content.made
                                                   /\ output_stream = <<>>
                                                   /\ report_file = OldFile
                                                   /\ log_errors = <<"Failed to obtain access token", "An error occurred">>

\* a finished run whose token response had no access token
C26_Witness == /\ pc = "done"
               /\ tokenOutcome = "no_token"
               /\ ~azure_token
               /\ stdout = <<[kind |-> "output", text |-> <<>>], [kind |-> "Logs:", text |-> <<"Failed to obtain access token", "An error occurred">>]>>

\* postgres_users is the whole filtered and transformed list of the fetched rows
CompleteList == /\ Len(postgres_users) = Len(KeptRows)
                /\ \A i \in 1..Len(KeptRows) : postgres_users[i] = StripPrefix(KeptRows[i])

\* C29: the database fetch returns the complete filtered and transformed
\* list, or the empty list after any exception; never a part of the list
C29_AllOrNothing == /\ (dbOutcome = "ok") => CompleteList
                    /\ (dbOutcome \in {"db_error", "unexpected"}) => (postgres_users = <<>>)
                    /\ (dbOutcome = "none") => (postgres_users = <<>>)

\* the exception came after two rows were fetched: nothing of them is returned
C29_Witness == /\ dbOutcome = "unexpected"
               /\ fetched = <<n_alice, n_test01bob>>
               /\ postgres_users = <<>>
               /\ Compared
               /\ table_data = <<>>

\* one iteration of the member loop: one request; the loop is left exactly
\* when the response carries no continuation link, and goes on to the next
\* page whenever it carries one, however many pages were already requested
LoopStep == /\ next_link # 0
            /\ memberCalls' = memberCalls + 1
            /\ httpFailed' => (pc' = "final")
            /\ ~httpFailed' => /\ pc' \in {"members_loop", "members_return"}
                               /\ (pc' = "members_return") <=> (next_link' = 0)
                               /\ (pc' = "members_loop") <=> (next_link' = next_link + 1)

C27_AbortLeavesFile == (pc \in {"final", "done"} /\ fileOutcome # "ok") => (report_file = OldFile)

\* C28: in the email-sending entry point the email step never blocks the
\* report: once send_email_report was called, the run ends with the text
\* report printed to the output stream and the report file written
C28_EmailNeverBlocksReport == (pc = "done" /\ email.outcome # "none") => (output_stream = <<report_content>> /\ fileOutcome # "none")

====
